---- MODULE Spec2Model ----
(***************************************************************************)
(* Model of ALLCools/mcds/base_ds.py: the per-chromosome dataset           *)
(* (BaseDSChrom), its codebook (Codebook) and the multi-chromosome         *)
(* wrapper (BaseDS).                                                       *)
(*                                                                         *)
(* A dataset value is a record                                             *)
(*   exists     - FALSE only for the "no dataset" placeholder              *)
(*   continuous - attrs["continuous"]                                      *)
(*   offset     - attrs["offset"], None when the key is absent             *)
(*   pos        - get_index("pos"): 0..n-1 for a dataset opened from       *)
(*                storage or sliced from one (the pos dimension carries    *)
(*                no coordinate there, so selection on it is positional),  *)
(*                the assigned coordinate after _fetch_positions           *)
(*   org        - for every row, the chromosome position whose data and    *)
(*                codebook column the row holds (the row of the stored     *)
(*                array it was read from)                                  *)
(* The count stored at chromosome position p is Count(p), the codebook     *)
(* column of p is CodebookValue(_, p).                                     *)
(***************************************************************************)
EXTENDS Integers, Sequences, FiniteSets, TLC

\* ------------------------------------------------------------------ bounds
ChromSize == 5
MaxPos == 2
MaxRegions == 2
MaxBin == 3

\* ------------------------------------------------------- values and inputs
None == -1
NaN == -2

Chroms == {"chr1", "chr2"}

context_size == 2
c_pos == 0

mc_type == {<<"C", "G">>, <<"C", "A">>}

NoDs == [exists |-> FALSE, continuous |-> FALSE, offset |-> None,
         pos |-> <<>>, org |-> <<>>]

NoOut == [exists |-> FALSE, labels |-> <<>>, sums |-> <<>>]

NoArg == [chrom |-> "", start |-> None, end |-> None, positions |-> <<>>,
          regions |-> <<>>, pattern |-> <<>>, bin_size |-> None,
          region_start |-> None, region_end |-> None]

Ok(d) == [err |-> "", ds |-> d]
Err(e) == [err |-> e, ds |-> NoDs]
NoRes == [err |-> "", ds |-> NoDs]

Starts == {None} \cup (0 .. ChromSize)
Ends == {None} \cup (1 .. ChromSize + 1)

SeqsUpTo(S, n) == UNION {[1 .. k -> S] : k \in 0 .. n}

PosSeqs == SeqsUpTo(0 .. ChromSize, MaxPos)

Intervals == {iv \in (0 .. ChromSize) \X (1 .. ChromSize) : iv[1] < iv[2]}

\* region lists and tables: rows in ascending order that do not overlap
RegionLists == {t \in SeqsUpTo(Intervals, MaxRegions) \ {<<>>} :
                   \A k \in 1 .. Len(t) - 1 : t[k][2] <= t[k + 1][1]}

Patterns == {<<"C", "N">>, <<"c", "g">>, <<"C", "A">>, <<"C", "T">>,
             <<"C">>, <<"G", "C">>, <<"c", "g", "a">>}

ValidPatterns == {<<"C", "N">>, <<"c", "g">>, <<"C", "T">>}

\* ------------------------------------------------------------ small helpers
Range(s) == {s[i] : i \in DOMAIN s}

Min(S) == CHOOSE x \in S : \A y \in S : x <= y
Max(S) == CHOOSE x \in S : \A y \in S : x >= y

Iota(a, b) == [i \in 1 .. (IF b > a THEN b - a ELSE 0) |-> a + i - 1]

Sort(s) == SortSeq(s, LAMBDA a, b : a < b)

RECURSIVE SetToSeq(_)
SetToSeq(S) == IF S = {} THEN <<>>
               ELSE LET x == Min(S) IN <<x>> \o SetToSeq(S \ {x})

RECURSIVE Pow2(_)
Pow2(n) == IF n = 0 THEN 1 ELSE 2 * Pow2(n - 1)

\* the count stored for chromosome position p
Count(p) == Pow2(p)

\* the stored codebook: one column per chromosome position, one row per label
CodebookValue(label, p) ==
    LET k == p % 6 IN
    IF label = <<"C", "G">>
    THEN (IF k \in {1, 2, 3} THEN 1 ELSE 0)
    ELSE (IF k \in {2, 4} THEN -1 ELSE IF k = 3 THEN 1 ELSE 0)

\* ------------------------------------------------------------- BaseDSChrom
continuous(d) == d.continuous

offset(d) == IF d.offset = None THEN 0 ELSE d.offset

chrom_size(d) == ChromSize

Len_(d) == Len(d.pos)

SetContinuous_KeepOffset(d, value) == [d EXCEPT !.continuous = value]

\* continuous.setter: the offset key is removed when the flag is cleared
SetContinuous(d, value) ==
    [d EXCEPT !.continuous = value,
              !.offset = IF value THEN d.offset ELSE None]

\* Dataset.sel(pos=slice(a, b)) on a dimension without coordinate:
\* positional, Python slice semantics (negative bounds count from the end)
SliceBound(x, n) == IF x < 0 THEN (IF x + n < 0 THEN 0 ELSE x + n)
                    ELSE (IF x > n THEN n ELSE x)

SelSlice(d, a, b) ==
    LET n == Len_(d)
        lo == SliceBound(a, n)
        hi == SliceBound(b, n)
        m == IF hi > lo THEN hi - lo ELSE 0
    IN [d EXCEPT !.pos = [i \in 1 .. m |-> i - 1],
                 !.org = [i \in 1 .. m |-> d.org[lo + i]]]

\* Dataset.sel(pos=array) on a dimension without coordinate: positional,
\* an index outside [-n, n) raises IndexError, a negative one wraps
SelIndex(d, idx) ==
    LET n == Len_(d) IN
    IF \E k \in DOMAIN idx : idx[k] >= n \/ idx[k] < -n
    THEN Err("IndexError")
    ELSE Ok([d EXCEPT
           !.pos = [k \in DOMAIN idx |-> k - 1],
           !.org = [k \in DOMAIN idx |->
                      d.org[(IF idx[k] < 0 THEN idx[k] + n ELSE idx[k]) + 1]]])

\* Dataset.sel(pos=array) on the pos coordinate: by label; the index must be
\* unique and every label must be present
SelLabel(d, lab) ==
    IF \E i, j \in DOMAIN d.pos : i # j /\ d.pos[i] = d.pos[j]
    THEN Err("InvalidIndexError")
    ELSE IF \E k \in DOMAIN lab : lab[k] \notin Range(d.pos)
    THEN Err("KeyError")
    ELSE Ok([d EXCEPT
           !.pos = lab,
           !.org = [k \in DOMAIN lab |->
                      d.org[CHOOSE i \in DOMAIN d.pos : d.pos[i] = lab[k]]]])

\* a continuous dataset has no pos coordinate, a sparse one has the coordinate
\* _fetch_positions assigned
Sel(d, lab) == IF d.continuous THEN SelIndex(d, lab) ELSE SelLabel(d, lab)

_fetch_positions(d, positions) ==
    LET sorted == Sort(positions)
        r == Sel(d, [k \in DOMAIN sorted |-> sorted[k] - offset(d)])
    IN IF r.err # "" THEN r
       ELSE Ok([SetContinuous(r.ds, FALSE) EXCEPT !.pos = sorted])

_regions_to_pos(regions) ==
    LET RECURSIVE cat(_)
        cat(k) == IF k > Len(regions) THEN <<>>
                  ELSE Iota(regions[k][1], regions[k][2]) \o cat(k + 1)
    IN cat(1)

\* fetch on a continuous dataset (lines 156-160)
FetchSlice(d, start, end) ==
    [SelSlice(d, start - offset(d), end - offset(d)) EXCEPT !.offset = start]

RECURSIVE fetch(_, _, _)
fetch_positions(d, positions) ==
    IF continuous(d)
    THEN IF positions = <<>> THEN Err("ValueError: min() of empty")
         ELSE LET pos_min == Min(Range(positions))
                  pos_max == Max(Range(positions)) + 1
                  r == fetch(d, pos_min, pos_max)
              IN IF r.err # "" THEN r ELSE _fetch_positions(r.ds, positions)
    ELSE _fetch_positions(d, positions)

fetch_regions(d, regions) == fetch_positions(d, _regions_to_pos(regions))

fetch(d, start0, end0) ==
    IF start0 = None /\ end0 = None THEN Err("ValueError: range")
    ELSE LET start == IF start0 = None THEN 0 ELSE start0
             end == IF end0 = None THEN chrom_size(d) ELSE end0
         IN IF ~(start < end) THEN Err("AssertionError: start < end")
            ELSE IF continuous(d) THEN Ok(FetchSlice(d, start, end))
            ELSE fetch_regions(d, <<<<start, end>>>>)

\* ----------------------------------------------------- the attribute map
\* obj = self.sel(...) hands obj the attribute map object of self (xarray
\* passes the dict on to the selection). A frame is what a call leaves behind:
\* self as it is after the call, and whether the returned dataset still
\* shares its attribute map with self.
Frame(self, shared) == [self |-> self, shared |-> shared]

AttrsCopy_Skipped(shared) == shared

\* obj.attrs = obj.attrs.copy() (lines 161, 204): obj gets a map of its own
AttrsCopy(shared) == FALSE

\* self after the writes that left obj.attrs as it is in obj
\* (obj.attrs["offset"] = start, obj.continuous = False): they reach self
\* when the map is shared
WriteAttrs(self, obj, shared) ==
    IF shared
    THEN [self EXCEPT !.continuous = obj.continuous, !.offset = obj.offset]
    ELSE self

\* _fetch_positions (lines 201-206)
_fetch_positions_self(d, positions) ==
    LET r == _fetch_positions(d, positions)
        shared == AttrsCopy(TRUE)
    IN IF r.err # "" THEN Frame(d, FALSE)
       ELSE Frame(WriteAttrs(d, r.ds, shared), shared)

RECURSIVE fetch_self(_, _, _)
\* fetch_positions (lines 224-231): on a continuous dataset the attribute map
\* passes through fetch and then through _fetch_positions
fetch_positions_self(d, positions) ==
    IF continuous(d)
    THEN IF positions = <<>> THEN Frame(d, FALSE)
         ELSE LET pos_min == Min(Range(positions))
                  pos_max == Max(Range(positions)) + 1
                  r == fetch(d, pos_min, pos_max)
                  f == fetch_self(d, pos_min, pos_max)
              IN IF r.err # "" THEN Frame(f.self, FALSE)
                 ELSE LET g == _fetch_positions_self(r.ds, positions)
                      IN Frame(WriteAttrs(f.self, g.self, f.shared),
                               f.shared /\ g.shared)
    ELSE _fetch_positions_self(d, positions)

fetch_regions_self(d, regions) == fetch_positions_self(d, _regions_to_pos(regions))

\* fetch (lines 150-167)
fetch_self(d, start0, end0) ==
    IF start0 = None /\ end0 = None THEN Frame(d, FALSE)
    ELSE LET start == IF start0 = None THEN 0 ELSE start0
             end == IF end0 = None THEN chrom_size(d) ELSE end0
             shared == AttrsCopy(TRUE)
         IN IF ~(start < end) THEN Frame(d, FALSE)
            ELSE IF continuous(d)
            THEN Frame(WriteAttrs(d, FetchSlice(d, start, end), shared), shared)
            ELSE fetch_regions_self(d, <<<<start, end>>>>)

\* ------------------------------------------------------------------ Codebook
Upper(ch) ==
    CASE ch = "a" -> "A" [] ch = "c" -> "C" [] ch = "g" -> "G"
      [] ch = "t" -> "T" [] ch = "n" -> "N" [] OTHER -> ch

upper(pattern) == [i \in DOMAIN pattern |-> Upper(pattern[i])]

PatternValid_LengthOnly(pattern) == Len(upper(pattern)) = context_size

\* Codebook._validate_mc_pattern: TRUE when the pattern is accepted
PatternValid(pattern) ==
    LET p == upper(pattern) IN
    /\ Len(p) = context_size
    /\ p[c_pos + 1] = "C"

\* ALLCools.utilities.parse_mc_pattern: the context labels an IUPAC pattern
\* denotes
Iupac(ch) ==
    CASE ch = "N" -> {"A", "C", "G", "T"}
      [] ch = "H" -> {"A", "C", "T"}
      [] OTHER -> {ch}

parse_mc_pattern(p) ==
    {s \in [DOMAIN p -> {"A", "C", "G", "T"}] : \A i \in DOMAIN p : s[i] \in Iupac(p[i])}

RECURSIVE SumOver(_, _)
SumOver(S, p) ==
    IF S = {} THEN 0
    ELSE LET l == CHOOSE x \in S : TRUE
         IN CodebookValue(l, p) + SumOver(S \ {l}, p)

\* sum over the selected labels, cast to bool: only 0 is False
MatchValue(judge, p) == SumOver(judge, p) # 0

\* Codebook.get_mc_pos_bool, for an already validated pattern: the rows of d
\* whose codebook column matches
get_mc_pos_bool(d, pattern) ==
    LET judge == mc_type \cap parse_mc_pattern(upper(pattern))
    IN [i \in DOMAIN d.org |-> MatchValue(judge, d.org[i])]

SelectSeq2(s, b) ==
    LET RECURSIVE pick(_)
        pick(i) == IF i > Len(s) THEN <<>>
                   ELSE (IF b[i] THEN <<s[i]>> ELSE <<>>) \o pick(i + 1)
    IN pick(1)

\* Codebook.get_mc_pos, for an already validated pattern
get_mc_pos(d, pattern, off) ==
    LET sel == SelectSeq2(d.pos, get_mc_pos_bool(d, pattern))
    IN [k \in DOMAIN sel |-> sel[k] + off]

select_mc_type(d, pattern) ==
    IF ~PatternValid(pattern) THEN Err("ValueError: pattern")
    ELSE fetch_positions(d, get_mc_pos(d, pattern, offset(d)))

select_mc_type_self(d, pattern) ==
    IF ~PatternValid(pattern) THEN Frame(d, FALSE)
    ELSE fetch_positions_self(d, get_mc_pos(d, pattern, offset(d)))


\* ------------------------------------------------------------ get_region_ds
\* comparisons with NaN (min/max of an empty index) are all false
Lt(a, b) == a # NaN /\ b # NaN /\ a < b

\* region_start / region_end when not given (lines 427-429)
DefaultStart(d) == IF d.pos = <<>> THEN NaN ELSE Min(Range(d.pos)) + offset(d)
DefaultEnd(d) == IF d.pos = <<>> THEN NaN ELSE Max(Range(d.pos)) + offset(d)

\* range(0, chrom_size, bin_size) without the values outside
\* [region_start, region_end] (lines 452-456)
BinWalk(d, bin_size, region_start, region_end) ==
    LET RECURSIVE walk(_)
        walk(i) == IF i >= chrom_size(d) THEN <<>>
                   ELSE (IF Lt(i, region_start) \/ Lt(region_end, i)
                         THEN <<>> ELSE <<i>>) \o walk(i + bin_size)
    IN walk(0)

\* lines 457-460, for a non-empty walk
SnapEdges(bins, region_start, region_end) ==
    LET b1 == IF Lt(bins[Len(bins)], region_end)
              THEN Append(bins, region_end) ELSE bins
    IN IF Lt(region_start, b1[1]) THEN <<region_start>> \o b1 ELSE b1

\* regions mode (line 448): the starts followed by the last end
RegionEdges(regions) ==
    [k \in 1 .. Len(regions) + 1 |->
        IF k <= Len(regions) THEN regions[k][1] ELSE regions[Len(regions)][2]]

\* pandas.cut(right=True, include_lowest=True): the bin (1-based) of x, 0 when
\* x falls in none
CutBin(bins, x) ==
    LET K == {k \in 1 .. Len(bins) - 1 :
                 \/ (bins[k] < x /\ x <= bins[k + 1])
                 \/ (k = 1 /\ x = bins[1] /\ Len(bins) > 1)}
    IN IF K = {} THEN 0 ELSE Min(K)

StrictlyIncreasing(s) == \A i \in 1 .. Len(s) - 1 : s[i] < s[i + 1]

RECURSIVE SumCount(_, _, _, _)
SumCount(base, bins, k, i) ==
    IF i > Len(base.pos) THEN 0
    ELSE (IF CutBin(bins, base.pos[i]) = k THEN Count(base.org[i]) ELSE 0)
         + SumCount(base, bins, k, i + 1)

\* lines 466-486: the aggregation over the prepared bins
Aggregate(base, pos_idx, bins, labels) ==
    IF pos_idx = <<>>
    THEN [err |-> "", out |-> [exists |-> TRUE, labels |-> labels,
                               sums |-> [k \in DOMAIN labels |-> 0]]]
    ELSE IF ~StrictlyIncreasing(bins)
    THEN [err |-> "ValueError: bins", out |-> NoOut]
    ELSE IF \A i \in DOMAIN base.pos : CutBin(bins, base.pos[i]) = 0
    THEN [err |-> "ValueError: no data in bins", out |-> NoOut]
    ELSE [err |-> "", out |-> [exists |-> TRUE, labels |-> labels,
                sums |-> [k \in DOMAIN labels |-> SumCount(base, bins, k, 1)]]]

MissingBinning_Either(bin_size, regions) == bin_size = None \/ regions = <<>>

\* line 422
MissingBinning(bin_size, regions) == bin_size = None /\ regions = <<>>

\* lines 439-442: the candidate positions
CandidatePos(d, mc, regions) ==
    LET pos_idx == get_mc_pos(d, mc, offset(d))
    IN IF regions # <<>>
       THEN Sort(SetToSeq(Range(pos_idx) \cap Range(_regions_to_pos(regions))))
       ELSE pos_idx

get_region_ds(d, a) ==
    IF MissingBinning(a.bin_size, a.regions)
    THEN [err |-> "ValueError: binning", out |-> NoOut]
    ELSE IF a.bin_size # None /\ ~(a.bin_size > 1)
    THEN [err |-> "AssertionError: bin_size", out |-> NoOut]
    ELSE IF ~PatternValid(a.pattern)
    THEN [err |-> "ValueError: pattern", out |-> NoOut]
    ELSE
    LET region_start == IF a.bin_size # None /\ a.region_start = None
                        THEN DefaultStart(d) ELSE a.region_start
        region_end == IF a.bin_size # None /\ a.region_end = None
                      THEN DefaultEnd(d) ELSE a.region_end
        pos_idx == CandidatePos(d, a.pattern, a.regions)
        base == fetch_positions(d, pos_idx)
        walk == BinWalk(d, a.bin_size, region_start, region_end)
    IN IF base.err # "" THEN [err |-> base.err, out |-> NoOut]
       ELSE IF a.regions # <<>>
       THEN Aggregate(base.ds, pos_idx, RegionEdges(a.regions),
                      [k \in DOMAIN a.regions |-> k - 1])
       ELSE IF walk = <<>>
       THEN [err |-> "IndexError: bins", out |-> NoOut]
       ELSE LET bins == SnapEdges(walk, region_start, region_end)
            IN Aggregate(base.ds, pos_idx, bins, SubSeq(bins, 1, Len(bins) - 1))

\* get_region_ds: the dataset is touched by fetch_positions (line 444) only;
\* the aggregate is built from base_ds["data"] and carries no attribute map
\* of the dataset
get_region_ds_self(d, a) ==
    IF \/ MissingBinning(a.bin_size, a.regions)
       \/ (a.bin_size # None /\ ~(a.bin_size > 1))
       \/ ~PatternValid(a.pattern)
    THEN Frame(d, FALSE)
    ELSE Frame(fetch_positions_self(d, CandidatePos(d, a.pattern, a.regions)).self,
               FALSE)


\* the dataset BaseDSChrom.open builds from the storage of a chromosome
Stored == [exists |-> TRUE, continuous |-> TRUE, offset |-> None,
           pos |-> Iota(0, ChromSize), org |-> Iota(0, ChromSize)]

open(start, end) ==
    IF start # None \/ end # None THEN fetch(Stored, start, end)
    ELSE Ok(Stored)

\* shared: the dataset in res has the attribute map object of the dataset the
\* call was made on
VARIABLES cache, opens, ds, pc, op, arg, res, out, shared

vars == <<cache, opens, ds, pc, op, arg, res, out, shared>>

BinSizes == 2 .. MaxBin

\* the calls of get_region_ds: bin_size mode with every region_start and
\* region_end, regions mode, both, neither, a bin_size of 1, and the
\* malformed patterns with each kind of binning
RegionArgs ==
    {[NoArg EXCEPT !.pattern = p, !.bin_size = b, !.region_start = s, !.region_end = e] :
        p \in ValidPatterns, b \in BinSizes, s \in Starts, e \in Starts}
    \cup {[NoArg EXCEPT !.pattern = p, !.regions = t] :
        p \in ValidPatterns, t \in RegionLists}
    \cup {[NoArg EXCEPT !.pattern = p, !.bin_size = 2, !.regions = t] :
        p \in Patterns, t \in {r \in RegionLists : Len(r) = 1 /\ r[1][1] = 0}}
    \cup {[NoArg EXCEPT !.pattern = p, !.bin_size = b] : p \in Patterns, b \in {None, 1, 2}}

Init ==
    /\ cache = [c \in Chroms |-> NoDs]
    /\ opens = [c \in Chroms |-> 0]
    /\ ds = NoDs
    /\ pc = "idle"
    /\ op = "init"
    /\ arg = NoArg
    /\ res = NoRes
    /\ out = NoOut
    /\ shared = FALSE

\* a call on the caller's current dataset: r is what it returns, f what it
\* leaves behind
Call(name, a, r, f) ==
    /\ pc = "idle"
    /\ ds.exists
    /\ pc' = "done"
    /\ op' = name
    /\ arg' = a
    /\ res' = r
    /\ out' = NoOut
    /\ ds' = f.self
    /\ shared' = f.shared
    /\ UNCHANGED <<cache, opens>>

\* BaseDSChrom.open(path, start, end)
Open ==
    \E s \in Starts, e \in Ends :
        /\ pc = "idle"
        /\ pc' = "done"
        /\ op' = "open"
        /\ arg' = [NoArg EXCEPT !.start = s, !.end = e]
        /\ res' = open(s, e)
        /\ out' = NoOut
        /\ shared' = FALSE
        /\ UNCHANGED <<cache, opens, ds>>

Fetch ==
    \E s \in Starts, e \in Ends :
        Call("fetch", [NoArg EXCEPT !.start = s, !.end = e], fetch(ds, s, e),
             fetch_self(ds, s, e))

FetchRegions ==
    \E rs \in RegionLists :
        Call("fetch_regions", [NoArg EXCEPT !.regions = rs], fetch_regions(ds, rs),
             fetch_regions_self(ds, rs))

FetchPositions ==
    \E P \in PosSeqs :
        Call("fetch_positions", [NoArg EXCEPT !.positions = P], fetch_positions(ds, P),
             fetch_positions_self(ds, P))

SelectMcType ==
    \E p \in Patterns :
        Call("select_mc_type", [NoArg EXCEPT !.pattern = p], select_mc_type(ds, p),
             select_mc_type_self(ds, p))

\* get_region_ds called with one of the argument records of Args
GetRegionDsOn(Args) ==
    \E a \in Args :
        LET r == get_region_ds(ds, a)
            f == get_region_ds_self(ds, a)
        IN
        /\ pc = "idle"
        /\ ds.exists
        /\ pc' = "done"
        /\ op' = "get_region_ds"
        /\ arg' = a
        /\ res' = [err |-> r.err, ds |-> NoDs]
        /\ out' = r.out
        /\ ds' = f.self
        /\ shared' = f.shared
        /\ UNCHANGED <<cache, opens>>

GetRegionDs == GetRegionDsOn(RegionArgs)

\* one call of get_region_ds of each kind: every pattern with the default
\* range in bin_size mode and with no binning at all, the largest bin_size,
\* and the whole chromosome as one region
FewRegionArgs ==
    {[NoArg EXCEPT !.pattern = p, !.bin_size = b] : p \in Patterns, b \in {None, 2}}
    \cup {[NoArg EXCEPT !.pattern = p, !.bin_size = MaxBin] : p \in ValidPatterns}
    \cup {[NoArg EXCEPT !.pattern = p, !.regions = <<<<0, ChromSize>>>>] :
            p \in ValidPatterns}

GetRegionDsFew == GetRegionDsOn(FewRegionArgs)

\* BaseDS._get_chrom_ds: open on the first access, the cached value after
CacheMiss_Always(chrom) == TRUE

CacheMiss(chrom) == ~cache[chrom].exists

_get_chrom_ds(chrom) ==
    IF CacheMiss(chrom) THEN open(None, None).ds ELSE cache[chrom]

\* a call on the collection: the dataset of the chromosome is stored on a
\* miss, then the call is delegated to it; r is what it returns, f what it
\* leaves of the stored dataset
CollCall(name, a, r, f) ==
    /\ pc = "idle"
    /\ pc' = "done"
    /\ op' = name
    /\ arg' = a
    /\ res' = r
    /\ out' = NoOut
    /\ cache' = [cache EXCEPT ![a.chrom] = f.self]
    /\ opens' = IF CacheMiss(a.chrom)
                THEN [opens EXCEPT ![a.chrom] = @ + 1] ELSE opens
    /\ shared' = f.shared
    /\ UNCHANGED ds

\* BaseDS.fetch / fetch_regions / fetch_positions
CollFetch ==
    \E c \in Chroms, s \in Starts, e \in Ends :
        CollCall("BaseDS.fetch", [NoArg EXCEPT !.chrom = c, !.start = s, !.end = e],
                 fetch(_get_chrom_ds(c), s, e),
                 fetch_self(_get_chrom_ds(c), s, e))

CollFetchRegions ==
    \E c \in Chroms, rs \in RegionLists :
        CollCall("BaseDS.fetch_regions", [NoArg EXCEPT !.chrom = c, !.regions = rs],
                 fetch_regions(_get_chrom_ds(c), rs),
                 fetch_regions_self(_get_chrom_ds(c), rs))

CollFetchPositions ==
    \E c \in Chroms, P \in PosSeqs :
        CollCall("BaseDS.fetch_positions", [NoArg EXCEPT !.chrom = c, !.positions = P],
                 fetch_positions(_get_chrom_ds(c), P),
                 fetch_positions_self(_get_chrom_ds(c), P))

\* the caller goes on with the returned dataset, or with the one it had when
\* the call failed or returned an aggregate
Continue ==
    /\ pc \in {"done", "set"}
    /\ pc' = "idle"
    /\ ds' = IF pc = "done" /\ res.err = "" /\ res.ds.exists THEN res.ds ELSE ds
    /\ op' = "init"
    /\ arg' = NoArg
    /\ res' = NoRes
    /\ out' = NoOut
    /\ shared' = FALSE
    /\ UNCHANGED <<cache, opens>>

\* the caller drops what the call returned and keeps the dataset it had
Discard ==
    /\ pc = "done"
    /\ pc' = "idle"
    /\ op' = "init"
    /\ arg' = NoArg
    /\ res' = NoRes
    /\ out' = NoOut
    /\ shared' = FALSE
    /\ UNCHANGED <<cache, opens, ds>>

\* the call in op was made on the collection, that is on the stored dataset
\* of arg.chrom
OnCollection ==
    op \in {"BaseDS.fetch", "BaseDS.fetch_regions", "BaseDS.fetch_positions"}

\* the caller changes an attribute of the returned dataset, through the
\* continuous setter (lines 114-120) or the offset setter (lines 126-129);
\* the change reaches the source when the attribute map is shared. The
\* caller does not go on with a dataset it has changed by hand.
SetAttrs ==
    \E changed \in {SetContinuous(res.ds, TRUE), SetContinuous(res.ds, FALSE),
                    [res.ds EXCEPT !.offset = chrom_size(res.ds)]} :
        /\ pc = "done"
        /\ res.err = ""
        /\ res.ds.exists
        /\ changed # res.ds
        /\ pc' = "set"
        /\ res' = [res EXCEPT !.ds = changed]
        /\ ds' = IF OnCollection THEN ds ELSE WriteAttrs(ds, changed, shared)
        /\ cache' = [c \in Chroms |->
                        IF OnCollection /\ c = arg.chrom
                        THEN WriteAttrs(cache[c], changed, shared) ELSE cache[c]]
        /\ UNCHANGED <<opens, op, arg, out, shared>>

Next ==
    \/ Open
    \/ Fetch
    \/ FetchRegions
    \/ FetchPositions
    \/ SelectMcType
    \/ Continue

Spec == Init /\ [][Next]_vars

\* aggregation on the datasets a collection hands out
NextAgg ==
    \/ CollFetch
    \/ SelectMcType
    \/ GetRegionDs
    \/ Continue

SpecAgg == Init /\ [][NextAgg]_vars

\* the collection alone
NextColl ==
    \/ CollFetch
    \/ CollFetchRegions
    \/ CollFetchPositions
    \/ Discard

SpecColl == Init /\ [][NextColl]_vars

\* every operation on a dataset, and the caller changing what it got back
NextFrame ==
    \/ Open
    \/ Fetch
    \/ FetchRegions
    \/ FetchPositions
    \/ SelectMcType
    \/ GetRegionDsFew
    \/ SetAttrs
    \/ Continue

SpecFrame == Init /\ [][NextFrame]_vars

\* ------------------------------------------------------------------ claims
\* the absolute coordinates a dataset reports for its rows
genomic_position(d) == [i \in DOMAIN d.pos |-> d.pos[i] + offset(d)]

PositionSet(d) == Range(genomic_position(d))

Done(name) == pc = "done" /\ op = name

Returned == res.err = "" /\ res.ds.exists

EffStart == IF arg.start = None THEN 0 ELSE arg.start
EffEnd == IF arg.end = None THEN ChromSize ELSE arg.end

\* what a continuous dataset promises: row i holds chromosome position
\* offset + i
Consistent(d) ==
    (d.exists /\ d.continuous) =>
        \A i \in DOMAIN d.org : d.org[i] = offset(d) + (i - 1)

\* C1: every dataset reachable from open by fetch, fetch_regions,
\* fetch_positions and select_mc_type calls that is continuous has
\* position_offset as the absolute coordinate of its local index 0, and
\* offset + i as the coordinate of index i.
C1_Continuity ==
    /\ Consistent(ds)
    /\ Consistent(res.ds)

\* C2: fetch(start, end) with start < end returns exactly the positions of
\* [start, end) that the source holds, in ascending order, and raises no
\* error for the positions of the range the source does not hold.
C2_FetchIntersection ==
    (Done("fetch") /\ EffStart < EffEnd /\ (arg.start # None \/ arg.end # None)) =>
        /\ Returned
        /\ genomic_position(res.ds) =
              SetToSeq({p \in PositionSet(ds) : EffStart <= p /\ p < EffEnd})

\* C3: fetch_positions(P) with every position of P inside the current window
\* yields P sorted ascending with duplicates kept, each entry carrying the
\* source's data of that position, sparse and with offset 0.
C3_FetchPositionsExact ==
    (Done("fetch_positions") /\ Range(arg.positions) \subseteq PositionSet(ds)) =>
        /\ Returned
        /\ genomic_position(res.ds) = Sort(arg.positions)
        /\ \A k \in DOMAIN res.ds.org :
              \E i \in DOMAIN ds.org :
                 /\ genomic_position(ds)[i] = genomic_position(res.ds)[k]
                 /\ ds.org[i] = res.ds.org[k]
        /\ ~res.ds.continuous
        /\ offset(res.ds) = 0

\* C4: fetch_positions fails whenever a requested position lies outside the
\* window of the dataset; it never returns a dataset for such a request.
C4_OutOfRangeFails ==
    (Done("fetch_positions") /\ ~(Range(arg.positions) \subseteq PositionSet(ds))) =>
        res.err # ""

\* the positions of d the pattern matches, as the code finds them
Matching(d, pattern) == Range(get_mc_pos(d, pattern, offset(d)))

BinMode == arg.bin_size # None /\ arg.regions = <<>>
RegionMode == arg.regions # <<>>

ArgStart == IF arg.region_start = None THEN DefaultStart(ds) ELSE arg.region_start
ArgEnd == IF arg.region_end = None THEN DefaultEnd(ds) ELSE arg.region_end

\* the bin edges of the call in arg, when they can be built
EdgesBuilt ==
    \/ RegionMode
    \/ (BinMode /\ arg.bin_size > 1 /\ BinWalk(ds, arg.bin_size, ArgStart, ArgEnd) # <<>>)

CallEdges ==
    IF RegionMode THEN RegionEdges(arg.regions)
    ELSE SnapEdges(BinWalk(ds, arg.bin_size, ArgStart, ArgEnd), ArgStart, ArgEnd)

CallLabels ==
    IF RegionMode THEN [k \in DOMAIN arg.regions |-> k - 1]
    ELSE SubSeq(CallEdges, 1, Len(CallEdges) - 1)

\* C5: with an empty candidate position set get_region_ds does not raise, on
\* a continuous as on a sparse source: it returns zeros under the bin labels
\* of the call.
C5_EmptyCandidatesZeroFilled ==
    (/\ Done("get_region_ds")
     /\ Len(arg.pattern) = context_size
     /\ Upper(arg.pattern[c_pos + 1]) = "C"
     /\ EdgesBuilt
     /\ CandidatePos(ds, arg.pattern, arg.regions) = <<>>) =>
        /\ res.err = ""
        /\ out.exists
        /\ out.labels = CallLabels
        /\ \A k \in DOMAIN out.sums : out.sums[k] = 0

RECURSIVE SumCounts(_)
SumCounts(S) == IF S = {} THEN 0
                ELSE LET x == Min(S) IN Count(x) + SumCounts(S \ {x})

\* the counts of the matching rows of d whose position lies in [s, e)
HalfOpenSum(d, pattern, s, e) ==
    SumCounts({d.org[i] : i \in {j \in DOMAIN d.org :
                  /\ genomic_position(d)[j] \in Matching(d, pattern)
                  /\ s <= genomic_position(d)[j]
                  /\ genomic_position(d)[j] < e}})

\* C6: the value get_region_ds reports for the bin or region [s, e) is the sum
\* over the matching positions p with s <= p < e; a position on an interior
\* edge counts in the bin that starts there.
C6_HalfOpenBins ==
    (Done("get_region_ds") /\ res.err = "" /\ out.exists) =>
        \A k \in DOMAIN out.sums :
            out.sums[k] =
                IF RegionMode
                THEN HalfOpenSum(ds, arg.pattern, arg.regions[k][1], arg.regions[k][2])
                ELSE HalfOpenSum(ds, arg.pattern, CallEdges[k], CallEdges[k + 1])

FetchFamily == {"fetch", "fetch_regions", "fetch_positions", "select_mc_type"}

\* C7: fetch(a, b) with [a, b) inside a continuous source yields a continuous
\* dataset with offset a; fetch_regions and fetch_positions yield a sparse one
\* with offset 0; every dataset derived from a sparse one is sparse with
\* offset 0.
C7_ContinuityStateMachine ==
    /\ (/\ Done("fetch") /\ ds.continuous
        /\ arg.start # None /\ arg.end # None /\ arg.start < arg.end
        /\ offset(ds) <= arg.start /\ arg.end <= offset(ds) + Len(ds.pos)) =>
            /\ Returned
            /\ res.ds.continuous
            /\ res.ds.offset = arg.start
    /\ (pc = "done" /\ op \in {"fetch_regions", "fetch_positions"} /\ Returned) =>
            /\ ~res.ds.continuous
            /\ res.ds.offset = None
    /\ (pc = "done" /\ op \in FetchFamily /\ ~ds.continuous /\ Returned) =>
            /\ ~res.ds.continuous
            /\ res.ds.offset = None

C7_Witness ==
    /\ Done("fetch")
    /\ ~ds.continuous
    /\ Returned
    /\ Len(res.ds.pos) > 0

\* the labels a pattern denotes, read off the pattern
Denoted(pattern) == mc_type \cap parse_mc_pattern(upper(pattern))

\* C8: select_mc_type(pattern) returns a sparse dataset holding exactly the
\* positions where at least one label the pattern denotes is nonzero in the
\* codebook, each once.
C8_SelectAnyNonzero ==
    (/\ Done("select_mc_type") /\ Returned) =>
        /\ ~res.ds.continuous
        /\ genomic_position(res.ds) =
              SetToSeq({genomic_position(ds)[i] : i \in {j \in DOMAIN ds.org :
                  \E l \in Denoted(arg.pattern) : CodebookValue(l, ds.org[j]) # 0}})

\* a pattern as the claim describes a well-formed one
WellFormed(pattern) ==
    /\ Len(pattern) = context_size
    /\ Upper(pattern[c_pos + 1]) = "C"

PatternError == "ValueError: pattern"

BinningAccepted(a) ==
    /\ ~(a.bin_size = None /\ a.regions = <<>>)
    /\ (a.bin_size # None => a.bin_size > 1)

BinningError == "ValueError: binning"

CollOps == {"BaseDS.fetch", "BaseDS.fetch_regions", "BaseDS.fetch_positions"}

\* what the call in arg does on the dataset d
CollResult(name, a, d) ==
    CASE name = "BaseDS.fetch" -> fetch(d, a.start, a.end)
      [] name = "BaseDS.fetch_regions" -> fetch_regions(d, a.regions)
      [] name = "BaseDS.fetch_positions" -> fetch_positions(d, a.positions)

RangeInChrom ==
    /\ ArgStart # NaN
    /\ ArgEnd # NaN
    /\ 0 <= ArgStart
    /\ ArgStart < ArgEnd
    /\ ArgEnd <= ChromSize

\* C13: in bin_size mode, for every bin_size > 1 and every region_start <
\* region_end inside the chromosome, the bin-edge list is built without
\* error, is strictly increasing, starts at region_start, ends at region_end,
\* has only multiples of bin_size as interior edges and gives one label per
\* bin, the bin's start edge; also when no multiple of bin_size lies between
\* region_start and region_end.
C13_BinEdges ==
    (/\ Done("get_region_ds")
     /\ BinMode
     /\ arg.bin_size > 1
     /\ WellFormed(arg.pattern)
     /\ RangeInChrom) =>
        /\ BinWalk(ds, arg.bin_size, ArgStart, ArgEnd) # <<>>
        /\ res.err # "IndexError: bins"
        /\ StrictlyIncreasing(CallEdges)
        /\ CallEdges[1] = ArgStart
        /\ CallEdges[Len(CallEdges)] = ArgEnd
        /\ \A k \in 2 .. Len(CallEdges) - 1 : CallEdges[k] % arg.bin_size = 0
        /\ Len(CallLabels) = Len(CallEdges) - 1
        /\ \A k \in DOMAIN CallLabels : CallLabels[k] = CallEdges[k]
        /\ out.exists => out.labels = CallLabels

DatasetOps == {"fetch", "fetch_regions", "fetch_positions", "select_mc_type",
               "get_region_ds"}

\* C12: no operation changes the dataset it is called on: over a call of
\* fetch, fetch_regions, fetch_positions, select_mc_type or get_region_ds,
\* returning or failing, the dataset keeps its is_continuous flag, its
\* position_offset, its genomic_position and its data (a stored dataset of the
\* collection likewise), and a change of the attributes of the returned
\* dataset leaves the attributes of the source as they were.
C12_SourceUnchanged ==
    [][/\ (pc = "idle" /\ pc' = "done" /\ op' \in DatasetOps) =>
            /\ ds'.continuous = ds.continuous
            /\ ds'.offset = ds.offset
            /\ genomic_position(ds') = genomic_position(ds)
            /\ ds'.org = ds.org
            /\ cache' = cache
       /\ (pc = "idle" /\ pc' = "done" /\ op' \in CollOps) =>
            /\ ds' = ds
            /\ \A c \in Chroms : cache[c].exists => cache'[c] = cache[c]
       /\ (pc = "done" /\ pc' = "set") =>
            /\ res'.ds # res.ds
            /\ ds'.continuous = ds.continuous
            /\ ds'.offset = ds.offset
            /\ ds' = ds
            /\ cache' = cache]_vars

\* the caller has changed the attributes of what fetch returned from a
\* continuous dataset, and the source still has its own
C12_Witness ==
    /\ pc = "set"
    /\ op = "fetch"
    /\ ds.continuous
    /\ res.ds.exists
    /\ ~res.ds.continuous
====
